---- MODULE Spec2Model ----
(***************************************************************************)
(* A model of the lycosa crawler core: RequestScheduler (per-IP admission), *)
(* HostSession (per-host crawl delay), TemporaryObjectFactory (cache with   *)
(* delayed eviction) and the Crawler that composes them.                    *)
(*                                                                          *)
(* Time is the integer clock `now` (Date.now()).  A timer fires when the    *)
(* clock has reached its deadline; callbacks queued with process.nextTick   *)
(* run before the clock moves.                                              *)
(***************************************************************************)
EXTENDS Integers, Sequences, FiniteSets, TLC

VARIABLES
    now,          \* Date.now()
    sessions,     \* HostSession objects, by name
    schedulers,   \* RequestScheduler objects, by name
    requests,     \* number of schedule() calls made so far (ids of the deferreds)
    admissions,   \* history: the admissions made, oldest first
    scheduled,    \* history: the schedule() calls made, oldest first
    woken,        \* history: the last requestEnd() of each scheduler that found a continuation
    entries,      \* TemporaryObjectFactory._entries: key -> installed promise (0: none)
    promises,     \* the promises __install has set up, in the order of their build
    timers,       \* the live setTimeout(__delete, timeout, key) timers of the factory
    fired,        \* history: the ids of the factory timers that have fired
    calls,        \* history: the get() calls made, oldest first
    destroys,     \* number of destroy() calls made so far
    uncaught,     \* an exception escaped a timer callback of the factory
    crawls,       \* history: the crawl() calls made on the Crawler, oldest first
    behaved,      \* history: the behaviours the Crawler has invoked, oldest first
    traces,       \* the traces whose pipeline _execute has started, oldest first
    _requests,    \* Crawler._requests: id -> trace in flight (0: none)
    _behaviors,   \* Crawler._behaviors: what setup() has put in place of a default
    selection     \* the last selectIp() call made on a HostSession, and what it gave

schedVars == <<sessions, schedulers, requests, admissions, scheduled, woken>>
factoryVars == <<entries, promises, timers, fired, calls, destroys, uncaught>>
crawlerVars == <<crawls, behaved, traces, _requests, _behaviors>>
selectVars == <<selection>>

----------------------------------------------------------------------------
(* Bounds of the model *)

MaxReq == 3       \* schedule() calls in one behaviour
MaxTime == 6      \* the clock stops here
MaxBatch == 4     \* schedule() calls in one behaviour of MultiHostSpec
MaxGets == 3      \* get() calls on the factory in one behaviour
MaxDestroys == 2  \* destroy() calls on the factory in one behaviour
MaxCrawls == 2    \* crawl() calls on the Crawler in one behaviour
MaxUrls == 2      \* URLs in the batch of one crawl() call
MaxGiven == 3     \* URLs given to crawl() in one behaviour, all calls together
MaxIps == 3       \* addresses in the list given to selectIp()
MaxCount == 19    \* totalRequestsCount of the session selectIp() is called on

(* Inputs *)
SchedulerNames == {"ip1", "ip2"}
SessionNames == {"s1", "s2"}
HostNames == {"h1", "h2"}

\* new RequestScheduler(delay, connectionLimit) of each scheduler: one that
\* allows a single connection and one that allows two
SchedulerArgs ==
    [ ip1 |-> [delay |-> 2, connectionLimit |-> 1],
      ip2 |-> [delay |-> 2, connectionLimit |-> 2] ]

\* new HostSession(delay) of each session: a crawl delay above the delay of
\* the schedulers and one below it
SessionArgs == [ s1 |-> [delay |-> 3], s2 |-> [delay |-> 1] ]

\* The objects of 'respects crawl delay when schedule multiple hosts', in
\* units of 500 ms: new RequestScheduler(500, 4), new HostSession(2000) and
\* new HostSession(1500)
MultiHostSchedulerArgs ==
    [ ip1 |-> [delay |-> 1, connectionLimit |-> 4],
      ip2 |-> [delay |-> 1, connectionLimit |-> 4] ]
MultiHostSessionArgs == [ s1 |-> [delay |-> 4], s2 |-> [delay |-> 3] ]

\* The keys and the timeouts passed to TemporaryObjectFactory.get
Keys == {"k"}
Timeouts == {1, 2}

\* The session of each host name
SessionOf == [ h1 |-> "s1", h2 |-> "s2" ]

Max(a, b) == IF a >= b THEN a ELSE b

----------------------------------------------------------------------------
(* HostSession *)

HostSession(delay) ==
    [ crawlDelay |-> delay,
      totalRequestsCount |-> 0,
      activeRequestsCount |-> 0,
      awaitingRequestsCount |-> 0,
      lastRequestTime |-> 0 ]          \* 0: no request was begun yet

\* timeToWait that never answers a negative time
timeToWaitClamped(H) ==
    IF H.lastRequestTime # 0 THEN Max(0, H.lastRequestTime + H.crawlDelay - now) ELSE 0

\* _lastRequestTime ? _lastRequestTime + crawlDelay - Date.now() : 0
timeToWait(H) ==
    IF H.lastRequestTime # 0 THEN H.lastRequestTime + H.crawlDelay - now ELSE 0

requestAdded(H) ==
    [H EXCEPT !.totalRequestsCount = @ + 1, !.awaitingRequestsCount = @ + 1]

requestBegin(H, time) ==
    [H EXCEPT !.lastRequestTime = time,
              !.activeRequestsCount = @ + 1,
              !.awaitingRequestsCount = @ - 1]

\* activeRequestsCount == 0 && awaitingRequestsCount == 0
isEmpty(H) == H.activeRequestsCount = 0 /\ H.awaitingRequestsCount = 0

\* HostSession.prototype.requestEnd
sessionRequestEnd(H) ==
    [H EXCEPT !.activeRequestsCount = @ - 1]

----------------------------------------------------------------------------
(* RequestScheduler *)

RequestScheduler(delay, connectionLimit) ==
    [ delay |-> delay,
      connectionLimit |-> connectionLimit,
      totalRequestsCount |-> 0,
      activeRequestsCount |-> 0,
      awaitingRequestsCount |-> 0,
      connections |-> 0,
      lastRequestTime |-> 0,     \* false
      timer |-> FALSE,           \* _timer holds a handle (it is never reset)
      timeout |-> 0,             \* deadline of the live setTimeout, 0: none
      timerTarget |-> 0,         \* false
      onConnection |-> FALSE,    \* _onConnection holds the continuation
      ticks |-> 0,               \* _execute calls queued with process.nextTick
      queues |-> << >> ]         \* _queues in insertion order: [host, session, items]

has(R, hostname) == \E i \in 1..Len(R.queues) : R.queues[i].host = hostname

QueueIndex(R, hostname) == CHOOSE i \in 1..Len(R.queues) : R.queues[i].host = hostname

availableConnectionsCount(R) == R.connectionLimit - R.connections

\* nextTime() is undefined when _timerTarget is false
nextTimeDefined(R) == R.timerTarget # 0
nextTime(R) == Max(R.timerTarget - now, 0)

\* _schedule(delay); delay = -1 stands for the call without an argument
_schedule(R, delay) ==
    LET R1 == IF R.timer THEN [R EXCEPT !.timeout = 0, !.timerTarget = 0] ELSE R
    IN  IF delay = 0
          THEN [R1 EXCEPT !.ticks = @ + 1, !.timerTarget = now]
          ELSE IF delay > 0
                 THEN [R1 EXCEPT !.timerTarget = now + delay,
                                 !.timer = TRUE,
                                 !.timeout = now + delay]
                 ELSE [R1 EXCEPT !.onConnection = TRUE]


\* requestEnd that leaves the continuation registered
requestEndKeepsContinuation(R) ==
    LET R1 == [R EXCEPT !.connections = @ - 1, !.activeRequestsCount = @ - 1]
    IN  IF R1.onConnection THEN [R1 EXCEPT !.ticks = @ + 1] ELSE R1

\* RequestScheduler.prototype.requestEnd
requestEnd(R) ==
    LET R1 == [R EXCEPT !.connections = @ - 1, !.activeRequestsCount = @ - 1]
    IN  IF R1.onConnection
          THEN [R1 EXCEPT !.ticks = @ + 1, !.onConnection = FALSE]
          ELSE R1

\* Enqueue with the item put at the head of the queue (unshift for push)
EnqueueAtHead(R, session, hostname, item) ==
    LET qs == IF has(R, hostname)
                THEN R.queues
                ELSE Append(R.queues, [host |-> hostname, session |-> session, items |-> << >>])
        i == CHOOSE k \in 1..Len(qs) : qs[k].host = hostname
    IN  [qs EXCEPT ![i].items = <<item>> \o @]

\* The queue of `hostname` with one more item, created at the end when absent
Enqueue(R, session, hostname, item) ==
    LET qs == IF has(R, hostname)
                THEN R.queues
                ELSE Append(R.queues, [host |-> hostname, session |-> session, items |-> << >>])
        i == CHOOSE k \in 1..Len(qs) : qs[k].host = hostname
    IN  [qs EXCEPT ![i].items = Append(@, item)]

\* The session requestAdded() is called on: the one the queue holds
QueueSession(R, session, hostname) ==
    IF has(R, hostname) THEN R.queues[QueueIndex(R, hostname)].session ELSE session

\* Rearm that leaves a scheduler with a target alone
RearmWithoutTarget(R, session) ==
    IF (R.timer \/ ~R.onConnection) /\ ~nextTimeDefined(R)
      THEN _schedule(R, Max(0, timeToWait(sessions[session])))
      ELSE R

\* "Check if we need to restart timer" of schedule()
Rearm(R, session) ==
    IF R.timer \/ ~R.onConnection
      THEN LET hostDelay == timeToWait(sessions[session])
               schedulerDelay == nextTime(R)
           IN  IF ~nextTimeDefined(R) \/ (schedulerDelay > 0 /\ hostDelay < schedulerDelay)
                 THEN _schedule(R, Max(0, hostDelay))
                 ELSE R
      ELSE R

\* RequestScheduler.prototype.schedule(session, url), url.hostname = hostname
schedule(s, session, hostname) ==
    /\ LET R == schedulers[s]
           item == [id |-> requests + 1, start |-> now]
           R1 == [R EXCEPT !.queues = Enqueue(R, session, hostname, item),
                           !.totalRequestsCount = @ + 1,
                           !.awaitingRequestsCount = @ + 1]
           qsession == QueueSession(R, session, hostname)
       IN  /\ sessions' = [sessions EXCEPT ![qsession] = requestAdded(@)]
           /\ schedulers' = [schedulers EXCEPT ![s] = Rearm(R1, session)]
    /\ requests' = requests + 1
    /\ scheduled' = Append(scheduled,
           [scheduler |-> s, session |-> session, host |-> hostname])
    /\ UNCHANGED <<now, admissions, woken, factoryVars, crawlerVars, selectVars>>

\* Executable with the crawl delay of the host ignored
ExecutableAlways(time) == TRUE

\* May a queue whose session has this timeToWait be executed now
Executable(time) == time <= 0

\* Scan in which the last of the queues with the least time wins
RECURSIVE ScanLastWins(_, _, _)
ScanLastWins(qs, i, acc) ==
    IF i > Len(qs) THEN acc
    ELSE LET time == timeToWait(sessions[qs[i].session])
         IN  IF time <= 0 /\ (acc.queue = 0 \/ time <= acc.score)
               THEN ScanLastWins(qs, i + 1, [acc EXCEPT !.queue = i, !.score = time])
               ELSE IF time > 0 /\ (acc.timeToWait = 0 \/ time < acc.timeToWait)
                      THEN ScanLastWins(qs, i + 1, [acc EXCEPT !.timeToWait = time])
                      ELSE ScanLastWins(qs, i + 1, acc)

\* Scan that looks at the first queue only
ScanFirstQueue(qs, i, acc) ==
    IF qs = << >> THEN acc
    ELSE LET time == timeToWait(sessions[qs[1].session])
         IN  IF time <= 0
               THEN [acc EXCEPT !.queue = 1, !.score = time]
               ELSE [acc EXCEPT !.timeToWait = time]

\* The scan of _execute over _queues: the first queue with the least
\* non-positive timeToWait, and the least positive timeToWait (0: none)
RECURSIVE Scan(_, _, _)
Scan(qs, i, acc) ==
    IF i > Len(qs) THEN acc
    ELSE LET time == timeToWait(sessions[qs[i].session])
         IN  IF Executable(time) /\ (acc.queue = 0 \/ time < acc.score)
               THEN Scan(qs, i + 1, [acc EXCEPT !.queue = i, !.score = time])
               ELSE IF time > 0 /\ (acc.timeToWait = 0 \/ time < acc.timeToWait)
                      THEN Scan(qs, i + 1, [acc EXCEPT !.timeToWait = time])
                      ELSE Scan(qs, i + 1, acc)

\* Shift that leaves an emptied queue in place
ShiftKeepsQueue(qs, i) == [qs EXCEPT ![i].items = Tail(@)]

\* _queues after the head of queue i was shifted; an empty queue is deleted
Shift(qs, i) ==
    IF Len(qs[i].items) = 1
      THEN SubSeq(qs, 1, i - 1) \o SubSeq(qs, i + 1, Len(qs))
      ELSE [qs EXCEPT ![i].items = Tail(@)]

\* ConnectionFree off by one: a scheduler at its limit counts as free
ConnectionFreeAtLimit(limit) == limit >= 0

\* May _execute go on to the queues: a connection is free
ConnectionFree(limit) == limit > 0

\* DelayElapsed with the delay of the scheduler ignored
DelayElapsedAlways(delay) == TRUE

\* May _execute go on to the queues: the IP delay has elapsed
DelayElapsed(delay) == ~(delay > 0)

\* RequestScheduler.prototype._execute, run on scheduler s in state R
_execute(s, R) ==
    LET limit == availableConnectionsCount(R)
        delay == IF R.lastRequestTime # 0 THEN R.lastRequestTime + R.delay - now ELSE -1
        found == Scan(R.queues, 1, [queue |-> 0, score |-> 0, timeToWait |-> 0])
    IN  IF ~ConnectionFree(limit)
          THEN /\ schedulers' = [schedulers EXCEPT ![s] = _schedule(R, -1)]
               /\ UNCHANGED <<sessions, admissions>>
        ELSE IF ~DelayElapsed(delay)
          THEN /\ schedulers' = [schedulers EXCEPT ![s] = _schedule(R, delay)]
               /\ UNCHANGED <<sessions, admissions>>
        ELSE IF R.awaitingRequestsCount = 0
          THEN /\ schedulers' = [schedulers EXCEPT ![s] = R]
               /\ UNCHANGED <<sessions, admissions>>
        ELSE LET q == found.queue
                 R1 == IF q # 0
                         THEN [R EXCEPT !.connections = @ + 1,
                                        !.queues = Shift(@, q),
                                        !.awaitingRequestsCount = @ - 1,
                                        !.activeRequestsCount = @ + 1,
                                        !.lastRequestTime = now]
                         ELSE R
                 left == IF q # 0 THEN limit - 1 ELSE limit
                 timeToWait1 == IF found.timeToWait = 0
                                  THEN R.delay
                                  ELSE Max(R.delay, found.timeToWait)
             IN  /\ schedulers' = [schedulers EXCEPT ![s] =
                        IF left = 0 THEN _schedule(R1, -1)
                        ELSE IF left > 0 THEN _schedule(R1, timeToWait1)
                        ELSE R1]    \* throw new Error("limit of connections ...")
                 /\ IF q # 0
                      THEN /\ sessions' = [sessions EXCEPT ![R.queues[q].session] =
                                               requestBegin(@, now)]
                           /\ admissions' = Append(admissions,
                                  [ scheduler |-> s,
                                    session |-> R.queues[q].session,
                                    host |-> R.queues[q].host,
                                    id |-> Head(R.queues[q].items).id,
                                    waited |-> now - Head(R.queues[q].items).start,
                                    time |-> now,
                                    ended |-> FALSE ])
                      ELSE UNCHANGED <<sessions, admissions>>

\* _execute run from process.nextTick
ExecuteTick(s) ==
    /\ schedulers[s].ticks > 0
    /\ _execute(s, [schedulers[s] EXCEPT !.ticks = @ - 1])
    /\ UNCHANGED <<now, requests, scheduled, woken, factoryVars, crawlerVars, selectVars>>

\* _execute run by the timer of _schedule(delay)
ExecuteTimer(s) ==
    /\ schedulers[s].timeout # 0
    /\ schedulers[s].timeout <= now
    /\ _execute(s, [schedulers[s] EXCEPT !.timeout = 0])
    /\ UNCHANGED <<now, requests, scheduled, woken, factoryVars, crawlerVars, selectVars>>

\* The caller reports the end of a request that was admitted and has not ended
RequestEnd(s) ==
    /\ schedulers[s].activeRequestsCount > 0
    /\ schedulers' = [schedulers EXCEPT ![s] = requestEnd(@)]
    /\ woken' = IF schedulers[s].onConnection
                  THEN [woken EXCEPT ![s] =
                           [ time |-> now,
                             last |-> schedulers[s].lastRequestTime,
                             queued |-> schedulers[s].awaitingRequestsCount ]]
                  ELSE woken
    /\ UNCHANGED <<now, sessions, requests, admissions, scheduled, factoryVars, crawlerVars, selectVars>>

\* The ensure handler of Crawler.prototype._schedule for the trace whose
\* request was admitted as admissions[a] (the fetch has settled):
\* trace._session.requestEnd(); trace._scheduler.requestEnd().  The session
\* of the trace is the one its schedule() call was given.
ScheduleEnsure(a) ==
    LET s == admissions[a].scheduler
        session == scheduled[admissions[a].id].session
    IN  /\ ~admissions[a].ended
        /\ sessions' = [sessions EXCEPT ![session] = sessionRequestEnd(@)]
        /\ schedulers' = [schedulers EXCEPT ![s] = requestEnd(@)]
        /\ admissions' = [admissions EXCEPT ![a].ended = TRUE]
        /\ woken' = IF schedulers[s].onConnection
                      THEN [woken EXCEPT ![s] =
                               [ time |-> now,
                                 last |-> schedulers[s].lastRequestTime,
                                 queued |-> schedulers[s].awaitingRequestsCount ]]
                      ELSE woken
        /\ UNCHANGED <<now, requests, scheduled, factoryVars, crawlerVars, selectVars>>

\* Nothing is due at the current time
SchedulersIdle ==
    \A s \in SchedulerNames :
        /\ schedulers[s].ticks = 0
        /\ schedulers[s].timeout = 0 \/ schedulers[s].timeout > now

----------------------------------------------------------------------------
(* TemporaryObjectFactory *)

\* promise.otherwise(function() { delete self._entries[key]; }): how the
\* installed promise settles, given how the promise of buildAction settles.
\* The handler returns nothing, so a failed build fulfils with undefined.
otherwise(build) ==
    CASE build = "pending" -> "pending"
      [] build = "fulfilled" -> "value"
      [] build = "rejected" -> "undefined"

\* promise.ensure(f) where f returns a promise: settles as the promise it is
\* called on, unless what f returned is rejected
ensure(promise, returned) ==
    IF returned = "rejected" THEN "rejected" ELSE promise

\* __install: the promise with the hidden fields of the factory
\*   build      how the promise of buildAction has settled
\*   thens      callbacks of __delete waiting for the value (value.then)
\*   destroying destroyAction calls in flight, destroyed: calls made
\*   deferer    "pending", "resolved" (with the promise of a destroyAction
\*              in flight), "fulfilled" or "rejected"
\*   callbacks  of deferer.promise, in order: 0 is the cache removal of
\*              __delete, c > 0 the repeated get of call c
\*   requested  when the destroy() that armed a timer for it was called
\*              (0: never)
__install(key, timeout) ==
    [ key |-> key,
      build |-> "pending",
      kTimer |-> 0,
      kDestroy |-> FALSE,
      kDeferer |-> "pending",
      kTimeout |-> timeout,
      thens |-> 0,
      destroying |-> 0,
      destroyed |-> 0,
      callbacks |-> << >>,
      requested |-> 0 ]

\* TemporaryObjectFactory.prototype.get(timeout, key) for call c, in the
\* factory state E (entries), P (promises), T (timers)
get(E, P, T, timeout, key, c) ==
    IF E[key] = 0
      THEN [ entries |-> [E EXCEPT ![key] = Len(P) + 1],
             promises |-> Append(P, __install(key, timeout)),
             timers |-> T,
             kind |-> "miss", promise |-> Len(P) + 1, on |-> 0 ]
      ELSE LET e == E[key] IN
           IF P[e].kTimer # 0
             THEN [ entries |-> E,
                    promises |-> [P EXCEPT ![e].kTimer = 0],
                    timers |-> {t \in T : t.id # P[e].kTimer},
                    kind |-> "cancel", promise |-> e, on |-> 0 ]
           ELSE IF P[e].kDestroy
             THEN [ entries |-> E,
                    promises |-> [P EXCEPT ![e].callbacks = Append(@, c)],
                    timers |-> T,
                    kind |-> "wait", promise |-> 0, on |-> e ]
           ELSE [ entries |-> E, promises |-> P, timers |-> T,
                  kind |-> "hit", promise |-> e, on |-> 0 ]

\* A client calls get(timeout, key)
Get(timeout, key) ==
    /\ ~uncaught
    /\ Len(calls) < MaxGets
    /\ LET c == Len(calls) + 1
           r == get(entries, promises, timers, timeout, key, c)
       IN  /\ entries' = r.entries
           /\ promises' = r.promises
           /\ timers' = r.timers
           /\ calls' = Append(calls,
                  [ key |-> key, timeout |-> timeout, kind |-> r.kind,
                    promise |-> r.promise, on |-> r.on, first |-> r.on,
                    deferer |-> "none", rejected |-> FALSE,
                    armed |-> {[id |-> t.id, promise |-> t.promise] :
                                  t \in {u \in timers : u.key = key}} ])
    /\ UNCHANGED <<now, schedVars, crawlerVars, selectVars, fired, destroys, uncaught>>

\* A client calls destroy(key)
Destroy(key) ==
    /\ ~uncaught
    /\ destroys < MaxDestroys
    /\ destroys' = destroys + 1
    /\ IF entries[key] = 0
         THEN UNCHANGED <<promises, timers>>     \* throw new Error("Entry doesnt exist")
         ELSE LET e == entries[key] IN
              IF promises[e].kTimer # 0 \/ promises[e].kDestroy
                THEN UNCHANGED <<promises, timers>>
                ELSE /\ promises' = [promises EXCEPT ![e].kTimer = destroys + 1,
                                                     ![e].requested = now]
                     /\ timers' = timers \cup
                            {[ id |-> destroys + 1, key |-> key, promise |-> e,
                               deadline |-> now + promises[e].kTimeout ]}
    /\ UNCHANGED <<now, schedVars, crawlerVars, selectVars, entries, fired, calls, uncaught>>

\* TemporaryObjectFactory.prototype.__delete(key), run by timer t
TimerFire(t) ==
    /\ ~uncaught
    /\ t.deadline <= now
    /\ timers' = timers \ {t}
    /\ fired' = fired \cup {t.id}
    /\ IF entries[t.key] = 0
         THEN /\ uncaught' = TRUE                \* value is undefined: TypeError
              /\ UNCHANGED promises
         ELSE /\ promises' = [promises EXCEPT ![entries[t.key]] =
                     [@ EXCEPT !.kDestroy = TRUE,
                               !.kTimer = 0,
                               !.thens = @ + 1,
                               !.callbacks = Append(@, 0)]]
              /\ UNCHANGED uncaught
    /\ UNCHANGED <<now, schedVars, crawlerVars, selectVars, entries, calls, destroys>>

\* The promise of buildAction settles; when it fails the handler of
\* __install removes whatever the cache holds for the key
BuildSettle(e, ok) ==
    /\ ~uncaught
    /\ promises[e].build = "pending"
    /\ promises' = [promises EXCEPT ![e].build = IF ok THEN "fulfilled" ELSE "rejected"]
    /\ entries' = IF ok THEN entries ELSE [entries EXCEPT ![promises[e].key] = 0]
    /\ UNCHANGED <<now, schedVars, crawlerVars, selectVars, timers, fired, calls, destroys, uncaught>>

\* The callback __delete has put on the value runs: destroyAction(key, obj)
\* is called and the deferer resolved with what it returns, or rejected
\* with what it throws
DestroyStart(e, throws) ==
    /\ ~uncaught
    /\ otherwise(promises[e].build) # "pending"
    /\ promises[e].thens > 0
    /\ promises' = [promises EXCEPT ![e] =
           [@ EXCEPT !.thens = @ - 1,
                     !.destroyed = @ + 1,
                     !.destroying = IF throws THEN @ ELSE @ + 1,
                     !.kDeferer = IF @ # "pending" THEN @
                                  ELSE IF throws THEN "rejected" ELSE "resolved"]]
    /\ UNCHANGED <<now, schedVars, crawlerVars, selectVars, entries, timers, fired, calls, destroys, uncaught>>

\* A destroyAction in flight settles; the deferer settles with it when it is
\* the one the deferer was resolved with
DestroySettle(e, ok, followed) ==
    /\ ~uncaught
    /\ promises[e].destroying > 0
    /\ IF followed
         THEN promises[e].kDeferer = "resolved"
         ELSE promises[e].destroying > (IF promises[e].kDeferer = "resolved" THEN 1 ELSE 0)
    /\ promises' = [promises EXCEPT ![e] =
           [@ EXCEPT !.destroying = @ - 1,
                     !.kDeferer = IF ~followed THEN @
                                  ELSE IF ok THEN "fulfilled" ELSE "rejected"]]
    /\ UNCHANGED <<now, schedVars, crawlerVars, selectVars, entries, timers, fired, calls, destroys, uncaught>>

\* The deferer of promise e has settled and its next callback runs: the
\* cache removal of __delete, or the repeated get of a waiting call
DeferCallback(e) ==
    /\ ~uncaught
    /\ promises[e].kDeferer \in {"fulfilled", "rejected"}
    /\ promises[e].callbacks # << >>
    /\ LET c == Head(promises[e].callbacks)
           P == [promises EXCEPT ![e].callbacks = Tail(@)]
       IN  IF c = 0
             THEN /\ entries' = [entries EXCEPT ![promises[e].key] = 0]
                  /\ promises' = P
                  /\ UNCHANGED <<timers, calls>>
             ELSE LET r == get(entries, P, timers, calls[c].timeout, calls[c].key, c)
                  IN  /\ entries' = r.entries
                      /\ promises' = r.promises
                      /\ timers' = r.timers
                      /\ calls' = [calls EXCEPT ![c] =
                             [@ EXCEPT !.promise = r.promise,
                                       !.on = r.on,
                                       !.deferer = IF @ = "none" THEN promises[e].kDeferer ELSE @,
                                       !.rejected = @ \/ (calls[c].deferer # "none"
                                                            /\ promises[e].kDeferer = "rejected")]]
    /\ UNCHANGED <<now, schedVars, crawlerVars, selectVars, fired, destroys, uncaught>>

\* How the promise get() returned to call c has settled: with the built
\* object ("value"), with undefined, with what the deferer of the destroyed
\* entry settled with ("fulfilled": the outcome of destroyAction), or
\* "rejected"
Outcome(c) ==
    IF calls[c].promise = 0 THEN "pending"
    ELSE LET value == otherwise(promises[calls[c].promise].build) IN
         IF value = "pending" THEN "pending"
         ELSE IF calls[c].deferer = "none" THEN value
         ELSE ensure(calls[c].deferer, IF calls[c].rejected THEN "rejected" ELSE value)

\* No timer of the factory is due and no callback of a settled promise waits
FactoryIdle ==
    /\ \A t \in timers : t.deadline > now
    /\ \A e \in DOMAIN promises :
           /\ ~(otherwise(promises[e].build) # "pending" /\ promises[e].thens > 0)
           /\ ~(promises[e].kDeferer \in {"fulfilled", "rejected"}
                  /\ promises[e].callbacks # << >>)

\* Date.now() advances
Tick ==
    /\ now < MaxTime
    /\ SchedulersIdle
    /\ FactoryIdle
    /\ now' = now + 1
    /\ UNCHANGED <<schedVars, factoryVars, crawlerVars, selectVars>>

----------------------------------------------------------------------------
(* HostSession.selectIp *)

\* The addresses a resolver may give: their order as strings is not their
\* order as numbers
Ips == {"9.0.0.1", "10.0.0.2", "10.0.0.10"}
IpLists == UNION {[1..n -> Ips] : n \in 0..MaxIps}

\* The UTF-16 code units of an address
CodeUnits(ip) ==
    CASE ip = "9.0.0.1" -> <<57, 46, 48, 46, 48, 46, 49>>
      [] ip = "10.0.0.2" -> <<49, 48, 46, 48, 46, 48, 46, 50>>
      [] ip = "10.0.0.10" -> <<49, 48, 46, 48, 46, 48, 46, 49, 48>>

\* The order Array.prototype.sort() uses without a comparator: strings by
\* their code units, a proper prefix first
RECURSIVE UnitsBefore(_, _)
UnitsBefore(a, b) ==
    IF b = << >> THEN FALSE
    ELSE IF a = << >> THEN TRUE
    ELSE IF Head(a) # Head(b) THEN Head(a) < Head(b)
    ELSE UnitsBefore(Tail(a), Tail(b))

Before(a, b) == UnitsBefore(CodeUnits(a), CodeUnits(b))

\* ips.sort()
RECURSIVE InsertIp(_, _)
InsertIp(ip, list) ==
    IF list = << >> THEN <<ip>>
    ELSE IF Before(ip, Head(list)) THEN <<ip>> \o list
    ELSE <<Head(list)>> \o InsertIp(ip, Tail(list))

RECURSIVE sort(_)
sort(ips) ==
    IF ips = << >> THEN << >>
    ELSE InsertIp(ips[Len(ips)], sort(SubSeq(ips, 1, Len(ips) - 1)))

\* The index of the tenth request:
\* 1 + Math.floor(Math.random() * (ips.length - 1)), random standing for the
\* floor, counted from 0 as in the source
RandomIndexFromFirst(random) == random
RandomIndex(random) == 1 + random

\* HostSession.prototype.selectIp(ips) on session H, ips missing when not
\* given: the value returned ("undefined" for none) and the array as the
\* call leaves it
selectIp(H, given, ips, random) ==
    IF ~given \/ Len(ips) = 0
      THEN [result |-> "undefined", ips |-> ips]
    ELSE IF Len(ips) = 1
      THEN [result |-> ips[1], ips |-> ips]
    ELSE LET sorted == sort(ips)
             index == IF (H.totalRequestsCount - H.awaitingRequestsCount + 1) % 10 = 0
                        THEN RandomIndex(random)
                        ELSE 0
         IN  [result |-> IF index + 1 \in DOMAIN sorted THEN sorted[index + 1] ELSE "undefined",
              ips |-> sorted]

\* session.selectIp(ips) is called on a session with the given counters
SelectIp(given, ips, total, awaiting, random) ==
    /\ ~given => ips = << >>
    /\ random < Max(Len(ips) - 1, 1)
    /\ LET H == [HostSession(1000) EXCEPT !.totalRequestsCount = total,
                                          !.awaitingRequestsCount = awaiting]
           r == selectIp(H, given, ips, random)
       IN  selection' = [given |-> given, ips |-> ips, total |-> total,
                         awaiting |-> awaiting, sorted |-> r.ips, result |-> r.result]
    /\ UNCHANGED <<now, schedVars, factoryVars, crawlerVars>>

----------------------------------------------------------------------------
(* Crawler *)

\* The URLs given to crawl(), and the batches made of them
Urls == {"http://h1/a", "http://H1/a", "http://h1/b", "http://h2/"}
Batches == UNION {[1..n -> Urls] : n \in 0..MaxUrls}

\* _parseUrl: urlutils.normalize lowers the case of the host name
_parseUrl(orig) ==
    IF orig = "http://H1/a" THEN "http://h1/a" ELSE orig

hostname(u) == IF u = "http://h2/" THEN "h2" ELSE "h1"

\* The values handed around, with what instanceof and the truth test see
JsString(v) == [type |-> "string", value |-> v]
JsNumber(v) == [type |-> "number", value |-> v]

\* _createTrace: new WorkflowTrace(id, u), the id being the SHA-1 of the href
_createTrace(u) == [type |-> "WorkflowTrace", value |-> u]

BehaviorNames ==
    { "resolveHost", "createHostSession", "disposeHostSession",
      "createScheduler", "disposeScheduler", "loadCookies", "storeCookies",
      "loadCachedPage", "storeCachedPage", "storePageContent", "fetchPageContent" }

\* Crawler.prototype._behave(name, trace, ...): it throws unless trace is
\* null or a WorkflowTrace, else it returns the promise of the behaviour
_behave(name, arguments) ==
    IF arguments[1].type # "null" /\ arguments[1].type # "WorkflowTrace"
      THEN "throws"
    ELSE IF name \notin BehaviorNames THEN "throws"
    ELSE "promise"

\* Array.prototype.slice.call(self_args, 1): what get(timeout, key, ...)
\* applies buildAction to
buildArguments(self_args) == SubSeq(self_args, 2, Len(self_args))

\* What the truth test of the source (!value) takes for false
JsUndefined == [type |-> "undefined", value |-> ""]

Falsy(v) ==
    \/ v.type = "undefined"
    \/ v.type = "number" /\ v.value = 0
    \/ v.type = "string" /\ v.value = ""

\* The get of a factory made with this._behave.bind(this, name), for a key
\* the cache does not hold: "promise", or the message of the error it throws
factoryGet(name, self_args) ==
    IF Falsy(self_args[1]) THEN "Timeout is not specified"
    ELSE IF Falsy(self_args[2]) THEN "Key is not specified"
    ELSE IF _behave(name, buildArguments(self_args)) = "throws"
      THEN "Trace object must be an instanceof CrawlerWorkflowTrace class"
    ELSE "promise"

\* The HostSession objects a caller hands to crawl() as opts._session: one
\* without requests and one on which a request of the caller is awaiting
CallerSessions ==
    [ idle |-> HostSession(1000), busy |-> requestAdded(HostSession(1000)) ]

\* opts._session of a crawl() call: no session, or one of the caller
SessionOptions == {"undefined"} \cup DOMAIN CallerSessions

\* The session of _prepare:
\* trace._session || this._sessions.get(1000, trace.url.hostname, trace)
prepareSession(trace, _session) ==
    IF _session # "undefined" THEN "promise"
    ELSE factoryGet("createHostSession",
                    <<JsNumber(1000), JsString(hostname(trace.value)), trace>>)

\* The scheduler of _init: this._schedulers.get(500, trace.ip, trace)
initScheduler(trace, ip) ==
    factoryGet("createScheduler", <<JsNumber(500), ip, trace>>)

\* The ids of the traces: the URLs after normalization
Ids == {_parseUrl(u) : u \in Urls}

\* The behaviours setup() replaces in this model, by one that fails
SetupNames == {"createScheduler"}

\* Crawler.prototype.setup(name, impl), impl failing with an error, before
\* the first crawl()
Setup(name) ==
    /\ crawls = << >>
    /\ _behaviors[name] = "default"
    /\ _behaviors' = [_behaviors EXCEPT ![name] = "fails"]
    /\ UNCHANGED <<now, schedVars, factoryVars, selectVars, crawls, behaved, traces, _requests>>

\* A behaviour invoked for a trace by call c. The promise of resolveHost is
\* pending; the noop the constructor sets up for loadCachedPage calls back
\* at once, so its promise is fulfilled (with false) when it is returned.
Invocation(name, id, c) ==
    [name |-> name, id |-> id, call |-> c,
     state |-> IF name = "loadCachedPage" THEN "fulfilled" ELSE "pending",
     value |-> << >>]

\* The trace of a pipeline _execute has started: ip and cached are the
\* invocations whose promises _prepare joins, stages the stages entered,
\* _session the session of the trace, ensured what the ensure handler of
\* _prepare found in the variable session ("" before it has run) and evict
\* whether it called _sessions.destroy; parent is the trace whose redirect
\* made this one (0: made by crawl()) and awaits the pipeline whose sequence
\* the trace waits for after a redirect (0: none)
NewTrace(id, c, ip, cached, _session) ==
    [id |-> id, call |-> c, ip |-> ip, cached |-> cached,
     _session |-> _session, ensured |-> "", evict |-> FALSE,
     parent |-> 0, awaits |-> 0,
     stage |-> "prepare", stages |-> <<"prepare">>,
     errors |-> << >>, ipList |-> << >>, ipValue |-> "promise"]

\* dns_cache.hasOwnProperty(u.hostname)
NeverInDnsCache(dns_cache, h) == FALSE
InDnsCache(dns_cache, h) == dns_cache[h] # 0

\* urls.forEach of crawl(), from input position i on. st is what the turns
\* before have left: the behaviours invoked, the traces, the in-flight map,
\* dns_cache (host name -> invocation of resolveHost, 0 for none), the
\* promise pushed for each position, and the message of an exception ("" for
\* none) that has ended the loop.
RECURSIVE forEach(_, _, _, _, _)
forEach(urls, i, c, _session, st) ==
    IF i > Len(urls) \/ st.error # "" THEN st
    ELSE
      LET u == _parseUrl(urls[i])
          trace == _createTrace(u)
          h == hostname(u)
          hit == InDnsCache(st.dns_cache, h)
          ip == IF hit THEN st.dns_cache[h] ELSE Len(st.behaved) + 1
          B1 == IF hit THEN st.behaved
                ELSE Append(st.behaved, Invocation("resolveHost", u, c))
          st1 == [st EXCEPT !.behaved = B1, !.dns_cache[h] = ip]
      IN
      IF ~hit /\ _behave("resolveHost", <<trace>>) = "throws"
           THEN [st EXCEPT !.error = "Trace object must be an instanceof CrawlerWorkflowTrace class"]
      ELSE IF st.requests[u] # 0
           \* _execute: the id is in flight, its promise is pushed again
           THEN forEach(urls, i + 1, c, _session,
                        [st1 EXCEPT !.promises = Append(@, st.requests[u])])
      ELSE \* _execute: _prepare(trace)
           LET B2 == Append(B1, Invocation("loadCachedPage", u, c))
               session == prepareSession(trace, _session)
           IN  IF session # "promise"
                 THEN [st1 EXCEPT !.behaved = B2, !.error = session]
                 ELSE forEach(urls, i + 1, c, _session,
                        [st1 EXCEPT
                           !.behaved = B2,
                           !.traces = Append(@, NewTrace(u, c, ip, Len(B2), _session)),
                           !.requests[u] = Len(st.traces) + 1,
                           !.promises = Append(@, Len(st.traces) + 1)])

\* The number of URLs the calls have been given
RECURSIVE Given(_)
Given(cs) == IF cs = << >> THEN 0 ELSE Len(Head(cs).urls) + Given(Tail(cs))

\* Crawler.prototype.crawl(urls, opts), opts carrying a HostSession as
\* _session or not (_createTrace assigns the options to every trace). An exception of the loop leaves crawl(); otherwise the
\* promise of when.settle(promises).then(...) is returned.
Crawl(urls, _session) ==
    /\ Len(crawls) < MaxCrawls
    /\ Given(crawls) + Len(urls) <= MaxGiven
    /\ LET c == Len(crawls) + 1
           st == forEach(urls, 1, c, _session,
                    [ behaved |-> behaved, traces |-> traces, requests |-> _requests,
                      dns_cache |-> [h \in HostNames |-> 0],
                      promises |-> << >>, error |-> "" ])
       IN  /\ behaved' = st.behaved
           /\ traces' = st.traces
           /\ _requests' = st.requests
           /\ crawls' = Append(crawls,
                  [ urls |-> urls, withSession |-> _session # "undefined",
                    _session |-> _session,
                    outcome |-> IF st.error # "" THEN "throws" ELSE "pending",
                    error |-> st.error,
                    promises |-> st.promises,
                    built |-> 0,
                    failed |-> 0,
                    builtBy |-> 0 ])
    /\ UNCHANGED <<now, schedVars, factoryVars, selectVars, _behaviors>>

\* How resolveHost may settle: with a list of addresses, maybe empty, or
\* with an error
Settlements(name) ==
    { [state |-> "fulfilled", value |-> <<"10.0.0.2", "10.0.0.10">>],
      [state |-> "fulfilled", value |-> << >>],
      [state |-> "rejected", value |-> << >>] }

\* when.join(ip, cached, session) of _prepare, given the behaviours B
join(t, B) ==
    IF B[t.ip].state = "rejected" \/ B[t.cached].state = "rejected" THEN "rejected"
    ELSE IF B[t.ip].state = "fulfilled" /\ B[t.cached].state = "fulfilled" THEN "fulfilled"
    ELSE "pending"

\* The error a behaviour that fails gives
BehaviourError(name) ==
    CASE name = "resolveHost" -> "resolveHost failed"
      [] name = "createScheduler" -> "createScheduler failed"
      [] OTHER -> "behaviour failed"

\* The pipeline of _execute for trace t from the moment the join of
\* _prepare settles, i being the behaviour that has just settled:
\*   rejected:  the otherwise handler records the error; the sequence is [t]
\*   fulfilled: setResolveResult, completePrepareStage (selectIp on the
\*              session of the call; -7 without an address), then _init,
\*              where the get of the scheduler factory throws; the
\*              otherwise handler records that error; the sequence is [t]
execute(t, i, B) ==
    IF join(t, B) = "rejected"
      THEN [t EXCEPT !.stage = "done",
                     !.errors = Append(@, BehaviourError(B[i].name))]
      ELSE LET ipList == B[t.ip].value
               selected == selectIp(CallerSessions[t._session], TRUE, ipList, 0)
               ip == selected.result
               prepared == [t EXCEPT
                   !.ipList = selected.ips,
                   !.ipValue = ip,
                   !.errors = IF ip = "undefined" THEN Append(@, "-7") ELSE @,
                   !.stages = Append(@, "init")]
               scheduler == initScheduler(_createTrace(t.id),
                                IF ip = "undefined" THEN JsUndefined ELSE JsString(ip))
           IN  IF scheduler # "promise"
                 THEN [prepared EXCEPT !.stage = "done", !.errors = Append(@, scheduler)]
                 ELSE [prepared EXCEPT !.stage = "init"]

\* The variable session of _prepare. It is assigned without var, so every
\* _prepare call writes the one global: it holds what the last call that
\* got past the assignment left there, the session of the newest trace.
session(T) == T[Len(T)]._session

\* The ensure handler of _prepare for trace t, the variable session holding
\* s: when(session).then(...) calls _sessions.destroy(hostname, result) if
\* result.isEmpty(). The cache of the factory holds no such key, so the call
\* throws inside the callback and nothing else happens.
prepareEnsure(t, s) ==
    [t EXCEPT !.ensured = s, !.evict = isEmpty(CallerSessions[s])]

\* An ensure handler that deletes only the ids of sequences without error
deregisterOnSuccess(R, T) ==
    [id \in Ids |->
        IF R[id] # 0 /\ T[R[id]].stage = "done" /\ T[R[id]].errors = << >>
          THEN 0 ELSE R[id]]

\* The ensure handler of _execute, for every sequence that has settled:
\* delete self._requests[trace.id]
deregister(R, T) ==
    [id \in Ids |-> IF R[id] # 0 /\ T[R[id]].stage = "done" THEN 0 ELSE R[id]]

\* The promise of invoked behaviour i settles, and with it, in the same run
\* of the promise queue, every pipeline whose join it decides; the ensure
\* handler of _execute takes the settled ids out of the in-flight map
BehaviourSettle(i, settlement) ==
    /\ behaved[i].state = "pending"
    /\ settlement \in Settlements(behaved[i].name)
    /\ LET B == [behaved EXCEPT ![i].state = settlement.state,
                                ![i].value = settlement.value]
           T == [t \in DOMAIN traces |->
                   IF traces[t].stage = "prepare" /\ join(traces[t], B) # "pending"
                     THEN prepareEnsure(execute(traces[t], i, B), session(traces))
                     ELSE traces[t]]
       IN  /\ behaved' = B
           /\ traces' = T
           /\ _requests' = deregister(_requests, T)
    /\ UNCHANGED <<now, schedVars, factoryVars, selectVars, crawls, _behaviors>>

\* The variable builder of crawl(). It is assigned without var, so every
\* call writes the one global: it holds the builder of the options of the
\* last call that got past urls.forEach, named here by the number of that
\* call.
RECURSIVE builder(_)
builder(C) ==
    IF C = << >> THEN 0
    ELSE IF C[Len(C)].outcome # "throws" THEN Len(C)
    ELSE builder(SubSeq(C, 1, Len(C) - 1))

\* crawl([u], {_session: ...}) for a trace whose stages up to the fetch have
\* passed: _execute has registered the pipeline, the list of addresses and
\* the session are set, and _complete has its three stores in flight
Arrive(u, _session) ==
    /\ Len(crawls) < MaxCrawls
    /\ Given(crawls) + 1 <= MaxGiven
    /\ _requests[_parseUrl(u)] = 0
    /\ LET c == Len(crawls) + 1
           t == Len(traces) + 1
       IN  /\ traces' = Append(traces,
                  [NewTrace(_parseUrl(u), c, 0, 0, _session) EXCEPT
                      !.stage = "complete",
                      !.stages = <<"prepare", "init", "schedule", "complete">>,
                      !.ipList = <<"10.0.0.10", "10.0.0.2">>,
                      !.ipValue = "10.0.0.10"])
           /\ _requests' = [_requests EXCEPT ![_parseUrl(u)] = t]
           /\ crawls' = Append(crawls,
                  [ urls |-> <<u>>, withSession |-> TRUE, _session |-> _session,
                    outcome |-> "pending", error |-> "", promises |-> <<t>>,
                    built |-> 0, failed |-> 0, builtBy |-> 0 ])
    /\ UNCHANGED <<now, schedVars, factoryVars, selectVars, behaved, _behaviors>>

\* What getRedirectTarget() may give: "" stands for a response that is not
\* a redirect (_redirectLocation === false)
Locations == Urls \cup {""}

\* The callback of _complete for trace t, its three stores settled, the
\* response redirecting to location.  rtrace is made by _createTrace(target)
\* without options: its ip is false, and _ipList and _session are those of
\* t when the host names are equal.  _execute(rtrace) gives the pipeline in
\* flight under the id of the target, or starts one: _prepare invokes
\* resolveHost (rtrace.ip is false) and loadCachedPage, and takes
\* rtrace._session or asks the factory, whose get throws; the exception
\* rejects the chain of t and its otherwise handler records it.
Complete(t, location) ==
    /\ traces[t].stage = "complete"
    /\ IF location = ""
         THEN /\ traces' = [traces EXCEPT ![t].stage = "done"]
              /\ _requests' = deregister(_requests, traces')
              /\ UNCHANGED behaved
         ELSE LET target == _parseUrl(location)
                  rsession == IF hostname(target) = hostname(traces[t].id)
                                THEN traces[t]._session ELSE "undefined"
                  B1 == Append(behaved, Invocation("resolveHost", target, traces[t].call))
                  B2 == Append(B1, Invocation("loadCachedPage", target, traces[t].call))
                  taken == prepareSession(_createTrace(target), rsession)
                  r == Len(traces) + 1
              IN  IF _requests[target] # 0
                    THEN /\ traces' = [traces EXCEPT ![t].stage = "redirect",
                                                     ![t].awaits = _requests[target]]
                         /\ UNCHANGED <<behaved, _requests>>
                  ELSE IF taken # "promise"
                    THEN /\ behaved' = B2
                         /\ traces' = [traces EXCEPT ![t].stage = "done",
                                                     ![t].errors = Append(@, taken)]
                         /\ _requests' = deregister(_requests, traces')
                  ELSE /\ behaved' = B2
                       /\ traces' = Append(
                              [traces EXCEPT ![t].stage = "redirect", ![t].awaits = r],
                              [NewTrace(target, traces[t].call, Len(B1), Len(B2), rsession)
                                  EXCEPT !.parent = t,
                                         !.ipList = traces[t].ipList])
                       /\ _requests' = [_requests EXCEPT ![target] = r]
    /\ UNCHANGED <<now, schedVars, factoryVars, selectVars, crawls, _behaviors>>

\* The callbacks _complete has put on the pipeline of the redirect target:
\* that pipeline has settled, the sequence of t is [t].concat(sequence),
\* and the ensure handler of _execute takes the id of t out of the map
Resume(t) ==
    /\ traces[t].stage = "redirect"
    /\ traces[traces[t].awaits].stage = "done"
    /\ traces' = [traces EXCEPT ![t].stage = "done"]
    /\ _requests' = deregister(_requests, traces')
    /\ UNCHANGED <<now, schedVars, factoryVars, selectVars, crawls, behaved, _behaviors>>

\* when.settle(promises).then(...) of crawl(), once every promise of the
\* call has settled: the builder is applied to the sequence of every input
\* position and the result delivered.  fails is the position at which the
\* builder of the caller throws (0: at none): values.forEach stops there and
\* the promise crawl() returned is rejected.  builtBy is the call whose
\* builder the callback found in the variable builder and called (0 when
\* there was no sequence to call it for).
Deliver(c, fails) ==
    /\ crawls[c].outcome = "pending"
    /\ fails <= Len(crawls[c].promises)
    /\ \A k \in DOMAIN crawls[c].promises : traces[crawls[c].promises[k]].stage = "done"
    /\ crawls' = [crawls EXCEPT ![c] =
           IF fails = 0
             THEN [@ EXCEPT !.outcome = "result", !.built = Len(crawls[c].promises),
                            !.builtBy = IF crawls[c].promises = << >> THEN 0
                                        ELSE builder(crawls)]
             ELSE [@ EXCEPT !.outcome = "rejected", !.built = fails, !.failed = fails,
                            !.builtBy = builder(crawls)]]
    /\ UNCHANGED <<now, schedVars, factoryVars, selectVars, behaved, traces, _requests, _behaviors>>

----------------------------------------------------------------------------
vars == <<now, schedVars, factoryVars, crawlerVars, selectVars>>

\* The state after construction, with the sessions and the schedulers
\* constructed from the given arguments
Constructed(sessionArgs, schedulerArgs) ==
    /\ now = 1
    /\ sessions = [h \in SessionNames |-> HostSession(sessionArgs[h].delay)]
    /\ schedulers = [s \in SchedulerNames |->
           RequestScheduler(schedulerArgs[s].delay, schedulerArgs[s].connectionLimit)]
    /\ requests = 0
    /\ admissions = << >>
    /\ scheduled = << >>
    /\ woken = [s \in SchedulerNames |-> [time |-> 0, last |-> 0, queued |-> 0]]
    /\ entries = [k \in Keys |-> 0]
    /\ promises = << >>
    /\ timers = {}
    /\ fired = {}
    /\ calls = << >>
    /\ destroys = 0
    /\ uncaught = FALSE
    /\ crawls = << >>
    /\ behaved = << >>
    /\ traces = << >>
    /\ _requests = [id \in Ids |-> 0]
    /\ _behaviors = [name \in SetupNames |-> "default"]
    /\ selection = [given |-> FALSE, ips |-> << >>, total |-> 0, awaiting |-> 0,
                    sorted |-> << >>, result |-> "none"]

Init == Constructed(SessionArgs, SchedulerArgs)

MultiHostInit == Constructed(MultiHostSessionArgs, MultiHostSchedulerArgs)

Next ==
    \/ \E s \in SchedulerNames, u \in HostNames :
           requests < MaxReq /\ schedule(s, SessionOf[u], u)
    \/ \E s \in SchedulerNames : ExecuteTick(s)
    \/ \E s \in SchedulerNames : ExecuteTimer(s)
    \/ \E s \in SchedulerNames : RequestEnd(s)
    \/ Tick

Spec == Init /\ [][Next]_vars

\* One scheduler shared by two hosts; schedule() is given any session
MultiHostNext ==
    \/ \E u \in HostNames, h \in SessionNames :
           requests < MaxBatch /\ schedule("ip1", h, u)
    \/ ExecuteTick("ip1")
    \/ ExecuteTimer("ip1")
    \/ RequestEnd("ip1")
    \/ Tick

MultiHostSpec == MultiHostInit /\ [][MultiHostNext]_vars

\* The schedule stage of the Crawler on one scheduler: _schedule hands the
\* session of the trace to schedule() and ends the request on that session
ScheduleStageNext ==
    \/ \E u \in HostNames, h \in SessionNames :
           requests < MaxReq /\ schedule("ip1", h, u)
    \/ ExecuteTick("ip1")
    \/ ExecuteTimer("ip1")
    \/ \E a \in DOMAIN admissions : ScheduleEnsure(a)
    \/ Tick

ScheduleStageSpec == MultiHostInit /\ [][ScheduleStageNext]_vars

FactoryNext ==
    \/ \E t \in Timeouts, k \in Keys : Get(t, k)
    \/ \E k \in Keys : Destroy(k)
    \/ \E t \in timers : TimerFire(t)
    \/ \E e \in DOMAIN promises, ok \in BOOLEAN : BuildSettle(e, ok)
    \/ \E e \in DOMAIN promises, throws \in BOOLEAN : DestroyStart(e, throws)
    \/ \E e \in DOMAIN promises, ok \in BOOLEAN, followed \in BOOLEAN :
           DestroySettle(e, ok, followed)
    \/ \E e \in DOMAIN promises : DeferCallback(e)
    \/ Tick

FactorySpec == Init /\ [][FactoryNext]_vars

CrawlerNext ==
    \/ \E name \in SetupNames : Setup(name)
    \/ \E urls \in Batches, _session \in SessionOptions : Crawl(urls, _session)
    \/ \E i \in DOMAIN behaved :
           \E settlement \in Settlements(behaved[i].name) : BehaviourSettle(i, settlement)
    \/ \E c \in DOMAIN crawls, fails \in 0..MaxUrls : Deliver(c, fails)

CrawlerSpec == Init /\ [][CrawlerNext]_vars

\* The complete stage of the Crawler: pipelines that have fetched a page,
\* the redirects of their responses and the pipelines of the targets
RedirectNext ==
    \/ \E u \in Urls, _session \in DOMAIN CallerSessions : Arrive(u, _session)
    \/ \E t \in DOMAIN traces, location \in Locations : Complete(t, location)
    \/ \E i \in DOMAIN behaved :
           \E settlement \in Settlements(behaved[i].name) : BehaviourSettle(i, settlement)
    \/ \E t \in DOMAIN traces : Resume(t)
    \/ \E c \in DOMAIN crawls, fails \in 0..MaxUrls : Deliver(c, fails)

RedirectSpec == Init /\ [][RedirectNext]_vars

\* One call of selectIp in a behaviour, with any arguments
SelectIpNext ==
    /\ selection.result = "none"
    /\ \E given \in BOOLEAN, ips \in IpLists, total \in 0..MaxCount, random \in 0..MaxIps :
           \E awaiting \in 0..total : SelectIp(given, ips, total, awaiting, random)

SelectIpSpec == Init /\ [][SelectIpNext]_vars

----------------------------------------------------------------------------
(* Claims about the RequestScheduler, checked under Spec *)

AdmissionPairs ==
    {p \in (DOMAIN admissions) \X (DOMAIN admissions) : p[1] < p[2]}

\* C1: in every reachable state the connections in use of a scheduler do not
\* exceed its connectionLimit.
ConnectionsWithinLimit ==
    \A s \in SchedulerNames :
        schedulers[s].connections <= schedulers[s].connectionLimit

\* C1 witness: a scheduler is at its limit, holds a queued URL and waits for a
\* connection, after an admission attempt found no free connection.
ConnectionsWithinLimit_witness ==
    \E s \in SchedulerNames :
        /\ schedulers[s].connectionLimit > 1
        /\ schedulers[s].connections = schedulers[s].connectionLimit
        /\ schedulers[s].awaitingRequestsCount > 0
        /\ schedulers[s].onConnection
        /\ schedulers[s].ticks = 0 /\ schedulers[s].timeout = 0

\* C2: two admissions of one scheduler are at least its delay apart.
SchedulerDelayRespected ==
    \A p \in AdmissionPairs :
        admissions[p[1]].scheduler = admissions[p[2]].scheduler
            => admissions[p[2]].time - admissions[p[1]].time
                   >= schedulers[admissions[p[1]].scheduler].delay

\* C2 witness: one scheduler has made three admissions, each exactly its delay
\* after the one before (the last one after a requestEnd freed a connection).
SchedulerDelayRespected_witness ==
    \E s \in SchedulerNames :
        /\ Len(admissions) = 3
        /\ \A i \in 1..3 : admissions[i].scheduler = s
        /\ \A i \in 1..2 :
               admissions[i + 1].time - admissions[i].time = schedulers[s].delay

\* C3: two admissions made under one HostSession are at least its crawl delay
\* apart, whichever schedulers made them.
CrawlDelayRespected ==
    \A p \in AdmissionPairs :
        admissions[p[1]].session = admissions[p[2]].session
            => admissions[p[2]].time - admissions[p[1]].time
                   >= sessions[admissions[p[1]].session].crawlDelay

\* C3 witness: two schedulers have admitted URLs of one session whose crawl
\* delay is above the delay of the schedulers, exactly the crawl delay apart.
CrawlDelayRespected_witness ==
    \E p \in AdmissionPairs :
        /\ admissions[p[1]].session = admissions[p[2]].session
        /\ admissions[p[1]].scheduler # admissions[p[2]].scheduler
        /\ sessions[admissions[p[1]].session].crawlDelay
               > schedulers[admissions[p[2]].scheduler].delay
        /\ admissions[p[2]].time - admissions[p[1]].time
               = sessions[admissions[p[1]].session].crawlDelay

\* C5: of two URLs of one host enqueued on one scheduler the one enqueued
\* first (the lower id) is admitted first: admissions of a host are in id
\* order, and what is still queued was enqueued after what was admitted.
FifoPerHost ==
    /\ \A p \in AdmissionPairs :
           /\ admissions[p[1]].scheduler = admissions[p[2]].scheduler
           /\ admissions[p[1]].host = admissions[p[2]].host
           => admissions[p[1]].id < admissions[p[2]].id
    /\ \A a \in DOMAIN admissions :
       \A q \in DOMAIN schedulers[admissions[a].scheduler].queues :
           LET queue == schedulers[admissions[a].scheduler].queues[q]
           IN  queue.host = admissions[a].host
                 => \A i \in DOMAIN queue.items : queue.items[i].id > admissions[a].id

\* C5 witness: a scheduler admitted two URLs of one host with a URL of another
\* host, enqueued between them, admitted between them.
FifoPerHost_witness ==
    /\ Len(admissions) = 3
    /\ admissions[1].scheduler = admissions[2].scheduler
    /\ admissions[2].scheduler = admissions[3].scheduler
    /\ admissions[1].host = admissions[3].host
    /\ admissions[1].host # admissions[2].host
    /\ admissions[1].id < admissions[2].id
    /\ admissions[2].id < admissions[3].id

\* The time the last request began under session h, as the admissions
\* record it (0: none was begun)
RECURSIVE LastBegin(_, _)
LastBegin(h, n) ==
    IF n = 0 THEN 0
    ELSE IF admissions[n].session = h THEN admissions[n].time
    ELSE LastBegin(h, n - 1)

\* C21: timeToWait() of a session is max(0, lastRequestTime + crawlDelay -
\* now): 0 when no request was ever begun, and never negative, however long
\* ago the last request began.
TimeToWaitIsClamped ==
    \A h \in SessionNames :
        LET last == LastBegin(h, Len(admissions))
        IN  timeToWait(sessions[h]) =
                IF last = 0 THEN 0
                ELSE Max(0, last + sessions[h].crawlDelay - now)

\* C21 as amended: timeToWait() is 0 when no request was ever begun, and
\* otherwise lastRequestTime + crawlDelay - now, which is negative once more
\* than crawlDelay has passed since the last request began.
TimeToWaitIsRemainder ==
    \A h \in SessionNames :
        LET last == LastBegin(h, Len(admissions))
        IN  timeToWait(sessions[h]) =
                IF last = 0 THEN 0
                ELSE last + sessions[h].crawlDelay - now

\* C21 witness: a request began under a session longer ago than its crawl
\* delay, while another session has begun none.
TimeToWaitIsRemainder_witness ==
    \E h, g \in SessionNames :
        /\ LastBegin(h, Len(admissions)) # 0
        /\ timeToWait(sessions[h]) < 0
        /\ LastBegin(g, Len(admissions)) = 0
        /\ sessions[g].awaitingRequestsCount > 0

----------------------------------------------------------------------------
(* Claims about one RequestScheduler shared by hosts, checked under        *)
(* MultiHostSpec                                                            *)

\* The step is an admission attempt of scheduler s: _execute has run
Attempt(s) ==
    /\ requests' = requests
    /\ schedulers'[s] # schedulers[s]
    /\ schedulers'[s].connections >= schedulers[s].connections

\* The delay of scheduler s since its last admission has elapsed
IpDelayElapsed(s) ==
    \/ schedulers[s].lastRequestTime = 0
    \/ schedulers[s].lastRequestTime + schedulers[s].delay - now <= 0

\* The queues of scheduler s whose session may begin a request now
ReadyQueues(s) ==
    {q \in DOMAIN schedulers[s].queues :
        timeToWait(sessions[schedulers[s].queues[q].session]) <= 0}

\* The step admits the head of queue q of scheduler s
Admits(s, q) ==
    /\ Len(admissions') = Len(admissions) + 1
    /\ admissions'[Len(admissions')].scheduler = s
    /\ admissions'[Len(admissions')].host = schedulers[s].queues[q].host
    /\ admissions'[Len(admissions')].id = Head(schedulers[s].queues[q].items).id

\* The four URLs of the two hosts were enqueued in the order h1/a, h1/2,
\* h2/a, h2/2 at the start, all were admitted and no request has ended
MultiHostBatch ==
    /\ scheduled = << [scheduler |-> "ip1", session |-> "s1", host |-> "h1"],
                      [scheduler |-> "ip1", session |-> "s1", host |-> "h1"],
                      [scheduler |-> "ip1", session |-> "s2", host |-> "h2"],
                      [scheduler |-> "ip1", session |-> "s2", host |-> "h2"] >>
    /\ Len(admissions) = 4
    /\ schedulers["ip1"].connections = 4
    /\ \A a \in 1..4 : admissions[a].time - admissions[a].waited = 1

\* The admissions h1/a, h2/a, h1/2, h2/2 at 0, 500, 2000 and 2500 ms after
\* the start
MultiHostOrder ==
    /\ admissions[1].id = 1 /\ admissions[1].time = 1
    /\ admissions[2].id = 3 /\ admissions[2].time = 2
    /\ admissions[3].id = 2 /\ admissions[3].time = 5
    /\ admissions[4].id = 4 /\ admissions[4].time = 6

\* C23: a host whose crawl delay has not elapsed does not block another host
\* of the scheduler: an admission attempt made with a free connection and the
\* delay of the scheduler elapsed admits a URL of a queue whose session has
\* timeToWait() <= 0 whenever there is such a queue, also behind a queue that
\* still waits; and h1/a, h1/2, h2/a, h2/2 enqueued in that order (crawl
\* delays 2000 and 1500, delay 500, connectionLimit 4) are admitted in the
\* order h1/a, h2/a, h1/2, h2/2 at t = 0, 500, 2000, 2500.
WaitingHostDoesNotBlock ==
    /\ [](MultiHostBatch => MultiHostOrder)
    /\ [][\A s \in SchedulerNames :
            (/\ Attempt(s)
             /\ availableConnectionsCount(schedulers[s]) > 0
             /\ IpDelayElapsed(s)
             /\ ReadyQueues(s) # {})
            => \E q \in ReadyQueues(s) : Admits(s, q)]_vars

\* C23 witness: the batch of the two hosts has been admitted, the second
\* host before the second URL of the first
WaitingHostDoesNotBlock_witness ==
    /\ MultiHostBatch
    /\ admissions[2].host = "h2"
    /\ admissions[3].host = "h1"

\* The time the session of queue q of scheduler s has to wait
QueueWait(s, q) == timeToWait(sessions[schedulers[s].queues[q].session])

\* C26: the URL admitted is the head of a queue whose session.timeToWait()
\* is <= 0 and minimal among all queues of the scheduler; no URL is admitted
\* from a queue whose session.timeToWait() is > 0; of several queues with the
\* minimal value the first one in insertion order is chosen.
AdmitsMostStarvedQueue ==
    [][\A s \in SchedulerNames :
          (/\ Len(admissions') = Len(admissions) + 1
           /\ admissions'[Len(admissions')].scheduler = s)
          => \E q \in DOMAIN schedulers[s].queues :
                 /\ Admits(s, q)
                 /\ QueueWait(s, q) <= 0
                 /\ \A p \in DOMAIN schedulers[s].queues :
                        /\ QueueWait(s, p) >= QueueWait(s, q)
                        /\ QueueWait(s, p) = QueueWait(s, q) => p >= q]_vars

\* C26 witness: the first admission was made with the queues of two hosts
\* under two sessions in place, neither session having begun a request, and
\* the URL enqueued first was admitted.
AdmitsMostStarvedQueue_witness ==
    /\ Len(admissions) >= 2
    /\ admissions[1].id = 1
    /\ \E k \in 2..Len(admissions) :
           /\ admissions[k].scheduler = admissions[1].scheduler
           /\ admissions[k].host # admissions[1].host
           /\ admissions[k].session # admissions[1].session
           /\ admissions[k].time - admissions[k].waited <= admissions[1].time

----------------------------------------------------------------------------
(* Claims about requestEnd() and the timer, checked under Spec *)

\* Scheduler s was blocked on the connection limit with a URL queued and a
\* requestEnd() freed a connection before lastRequestTime + delay
FreedEarly(s) ==
    /\ woken[s].time # 0
    /\ woken[s].queued > 0
    /\ woken[s].time < woken[s].last + schedulers[s].delay

\* Admission j is the first one scheduler s made after the one at time last
FirstAfter(s, j, last) ==
    /\ admissions[j].scheduler = s
    /\ admissions[j].time > last
    /\ \A i \in 1..(j - 1) :
           admissions[i].scheduler = s => admissions[i].time <= last

\* The URL of admission j was queued at time t and its session was free to
\* begin a request then
ReadyBy(j, t) ==
    /\ admissions[j].time - admissions[j].waited <= t
    /\ \A i \in 1..(j - 1) :
           admissions[i].session = admissions[j].session
               => admissions[i].time + sessions[admissions[j].session].crawlDelay <= t

\* Nothing of scheduler s is due at the current time
Settled(s) ==
    /\ schedulers[s].ticks = 0
    /\ schedulers[s].timeout = 0 \/ schedulers[s].timeout > now

QueuedUrlHasAttemptToCome ==
    \A s \in SchedulerNames :
        schedulers[s].awaitingRequestsCount > 0 =>
            \/ schedulers[s].ticks > 0
            \/ schedulers[s].timeout # 0
            \/ schedulers[s].onConnection /\ schedulers[s].activeRequestsCount > 0

\* The admission attempts of scheduler s that are to come by themselves: the
\* pending setTimeout and the calls queued for the next tick
PendingTimers(s) ==
    schedulers[s].ticks + (IF schedulers[s].timeout # 0 THEN 1 ELSE 0)

\* C28: in every reachable state a scheduler has at most one pending timer,
\* and whenever a connection continuation is registered (the scheduler is
\* blocked on the connection limit) no timer is pending.
SingleTimer ==
    \A s \in SchedulerNames :
        /\ PendingTimers(s) <= 1
        /\ schedulers[s].onConnection => PendingTimers(s) = 0

\* The step is a schedule() call on scheduler s for a URL of host u
Scheduled(s, u) ==
    /\ requests' = requests + 1
    /\ schedulers'[s].totalRequestsCount = schedulers[s].totalRequestsCount + 1
    /\ \E q \in DOMAIN schedulers'[s].queues :
           /\ schedulers'[s].queues[q].host = u
           /\ schedulers'[s].queues[q].items[Len(schedulers'[s].queues[q].items)].id
                  = requests'

\* C27: when schedule(session, url) is called while the timer of the
\* scheduler is armed and session.timeToWait() is strictly less than the time
\* remaining to the target of the timer, the scheduler cancels the pending
\* timer and re-arms for the earlier time: the next tick when the session has
\* nothing to wait, a timer of session.timeToWait() otherwise.
RearmsForEarlierTime ==
    [][\A s \in SchedulerNames, u \in HostNames :
          LET hostDelay == timeToWait(sessions[SessionOf[u]])
          IN  (/\ Scheduled(s, u)
               /\ schedulers[s].timeout > now
               /\ hostDelay < schedulers[s].timeout - now)
              => IF hostDelay <= 0
                   THEN /\ schedulers'[s].timeout = 0
                        /\ schedulers'[s].ticks = schedulers[s].ticks + 1
                   ELSE /\ schedulers'[s].timeout = now + hostDelay
                        /\ schedulers'[s].ticks = schedulers[s].ticks]_vars

\* C27 witness: within the delay after an admission, with a connection free
\* and the timer armed for the end of the delay, a URL of a session that has
\* nothing to wait was scheduled and the attempt moved to the next tick.
RearmsForEarlierTime_witness ==
    \E s \in SchedulerNames :
        /\ schedulers[s].lastRequestTime # 0
        /\ now < schedulers[s].lastRequestTime + schedulers[s].delay
        /\ schedulers[s].connections < schedulers[s].connectionLimit
        /\ ~schedulers[s].onConnection
        /\ schedulers[s].timer
        /\ schedulers[s].timeout = 0
        /\ schedulers[s].ticks = 1
        /\ schedulers[s].timerTarget = now
        /\ schedulers[s].awaitingRequestsCount = 1
        /\ \E q \in DOMAIN schedulers[s].queues :
               /\ schedulers[s].queues[q].items[1].start = now
               /\ timeToWait(sessions[schedulers[s].queues[q].session]) <= 0

\* C29: requestEnd() takes one from the connections in use and from
\* activeRequestsCount; a registered continuation is consumed and run once
\* on the next tick, so the requestEnd() calls of one tick start at most one
\* admission attempt for a continuation; without a continuation no attempt
\* is started.
RequestEndWakesOnce ==
    [][\A s \in SchedulerNames :
          (/\ requests' = requests
           /\ schedulers'[s].connections < schedulers[s].connections)
          => /\ schedulers'[s].connections = schedulers[s].connections - 1
             /\ schedulers'[s].activeRequestsCount
                    = schedulers[s].activeRequestsCount - 1
             /\ schedulers'[s].ticks =
                    schedulers[s].ticks + (IF schedulers[s].onConnection THEN 1 ELSE 0)
             /\ ~schedulers'[s].onConnection
             /\ schedulers'[s].timeout = schedulers[s].timeout
             /\ admissions' = admissions]_vars

\* C29 witness: a scheduler blocked with both of its connections in use and
\* a URL queued has seen both requests end within one tick, and one
\* admission attempt is queued.
RequestEndWakesOnce_witness ==
    \E s \in SchedulerNames :
        /\ schedulers[s].connectionLimit = 2
        /\ schedulers[s].connections = 0
        /\ schedulers[s].awaitingRequestsCount > 0
        /\ woken[s].time = now
        /\ woken[s].queued > 0
        /\ schedulers[s].ticks = 1
        /\ schedulers[s].timeout = 0

----------------------------------------------------------------------------
(* Claims about schedule(), checked under MultiHostSpec *)

\* C30: schedule(session, url) appends one item to the tail of the queue of
\* url.hostname, creating the queue when absent, adds one to
\* totalRequestsCount and awaitingRequestsCount of the scheduler, calls
\* requestAdded() once on the session passed to it, and leaves the
\* connections in use, activeRequestsCount, lastRequestTime and all other
\* queues as they are.
ScheduleEffect ==
    [][\A s \in SchedulerNames :
          (/\ Len(scheduled') = Len(scheduled) + 1
           /\ scheduled'[Len(scheduled')].scheduler = s)
          => LET call == scheduled'[Len(scheduled')]
                 R == schedulers[s]
                 R1 == schedulers'[s]
                 item == [id |-> requests', start |-> now]
             IN  /\ IF has(R, call.host)
                      THEN /\ Len(R1.queues) = Len(R.queues)
                           /\ \A q \in DOMAIN R.queues :
                                  R1.queues[q] =
                                      IF R.queues[q].host = call.host
                                        THEN [R.queues[q] EXCEPT !.items = Append(@, item)]
                                        ELSE R.queues[q]
                      ELSE /\ Len(R1.queues) = Len(R.queues) + 1
                           /\ \A q \in DOMAIN R.queues : R1.queues[q] = R.queues[q]
                           /\ R1.queues[Len(R1.queues)].host = call.host
                           /\ R1.queues[Len(R1.queues)].items = <<item>>
                 /\ R1.totalRequestsCount = R.totalRequestsCount + 1
                 /\ R1.awaitingRequestsCount = R.awaitingRequestsCount + 1
                 /\ sessions' = [sessions EXCEPT ![call.session] = requestAdded(@)]
                 /\ R1.connections = R.connections
                 /\ R1.activeRequestsCount = R.activeRequestsCount
                 /\ R1.lastRequestTime = R.lastRequestTime]_vars

----------------------------------------------------------------------------
(* Claims about the counters of a RequestScheduler, checked under Spec *)

\* The number of items in the queues qs
RECURSIVE ItemCount(_)
ItemCount(qs) ==
    IF qs = << >> THEN 0 ELSE Len(Head(qs).items) + ItemCount(Tail(qs))

\* The number of schedule() calls made on scheduler s
ScheduledOn(s) ==
    Cardinality({i \in DOMAIN scheduled : scheduled[i].scheduler = s})

\* The number of admissions scheduler s has made
AdmittedBy(s) ==
    Cardinality({a \in DOMAIN admissions : admissions[a].scheduler = s})

\* C31: in every reachable state of a scheduler awaitingRequestsCount is the
\* number of items in all its queues, activeRequestsCount is the number of
\* connections in use, every queue holds at least one item, and
\* totalRequestsCount, the number of URLs scheduled, is the sum of the
\* awaiting, the active and the ended requests.
CountersMatchQueues ==
    \A s \in SchedulerNames :
        LET R == schedulers[s]
            ended == AdmittedBy(s) - R.activeRequestsCount
        IN  /\ R.awaitingRequestsCount = ItemCount(R.queues)
            /\ R.activeRequestsCount = R.connections
            /\ \A q \in DOMAIN R.queues : R.queues[q].items # << >>
            /\ R.totalRequestsCount = ScheduledOn(s)
            /\ ended >= 0
            /\ R.totalRequestsCount
                   = R.awaitingRequestsCount + R.activeRequestsCount + ended

\* C31 witness: a scheduler with a request ended, a request active and a
\* URL queued, the queues of the hosts admitted so far deleted.
CountersMatchQueues_witness ==
    \E s \in SchedulerNames :
        LET R == schedulers[s]
        IN  /\ R.totalRequestsCount = 3
            /\ AdmittedBy(s) = 2
            /\ R.activeRequestsCount = 1
            /\ R.awaitingRequestsCount = 1
            /\ Len(R.queues) = 1
            /\ \A a \in DOMAIN admissions : admissions[a].host # R.queues[1].host

----------------------------------------------------------------------------
(* Claims about the schedule stage of the Crawler, checked under           *)
(* ScheduleStageSpec                                                        *)

----------------------------------------------------------------------------
(* TemporaryObjectFactory: the claims *)

PromisesOf(key) == {e \in DOMAIN promises : promises[e].key = key}

\* buildAction calls for the key whose promise has not settled
BuildsInFlight(key) ==
    Cardinality({e \in PromisesOf(key) : promises[e].build = "pending"})

RECURSIVE SumDestroying(_)
SumDestroying(S) ==
    IF S = {} THEN 0
    ELSE LET e == CHOOSE x \in S : TRUE
         IN  promises[e].destroying + SumDestroying(S \ {e})

\* destroyAction calls for the key whose promise has not settled
DestroysInFlight(key) == SumDestroying(PromisesOf(key))

\* C7: for every key, at most one buildAction and at most one destroyAction
\* are in flight at any time, and no buildAction is in flight while a
\* destroyAction for the key is
OneBuildOneDestroyPerKey ==
    \A k \in Keys :
        /\ BuildsInFlight(k) <= 1
        /\ DestroysInFlight(k) <= 1
        /\ ~(BuildsInFlight(k) >= 1 /\ DestroysInFlight(k) >= 1)

\* C8: a get() made while a timer armed by destroy() for the key has not
\* fired cancels the eviction: it builds nothing, it returns the promise the
\* destroy was asked for, and that timer never fires
GetInGraceCancelsEviction ==
    \A c \in DOMAIN calls :
        calls[c].armed # {} =>
            /\ calls[c].kind = "cancel"
            /\ \A t \in calls[c].armed :
                   /\ t.id \notin fired
                   /\ \A u \in timers : u.id # t.id
                   /\ calls[c].promise = t.promise

\* C9: a get() made while the entry is being destroyed is answered only
\* after the deferer of that entry has settled, and what it settles with is
\* the object of a build made after that, not the outcome of destroyAction
GetWhileDestroyingGetsFreshInstance ==
    \A c \in DOMAIN calls :
        calls[c].kind = "wait" =>
            /\ calls[c].promise # 0 =>
                   promises[calls[c].first].kDeferer \in {"fulfilled", "rejected"}
            /\ Outcome(c) # "pending" =>
                   /\ Outcome(c) = "value"
                   /\ calls[c].promise > calls[c].first

\* C10: when the build of a key fails, the promise get() returned fails, the
\* failed entry is not in the cache, and so a later get() builds again
BuildFailureReachesCaller ==
    \A c \in DOMAIN calls :
        (calls[c].kind # "wait" /\ promises[calls[c].promise].build = "rejected") =>
            /\ Outcome(c) = "rejected"
            /\ entries[calls[c].key] # calls[c].promise

\* C33: destroyAction is invoked for an entry only when destroy() was
\* requested for it, no earlier than the timeout of the entry after that
\* request and not before its build has completed; the deferer, the signal
\* destroy() returns, settles only through a destroyAction; and an entry
\* that was built is taken out of the cache only when its deferer has
\* settled.
DestroyAfterGraceAndBuild ==
    [][/\ \A e \in DOMAIN promises :
              /\ promises'[e].destroyed > promises[e].destroyed =>
                     /\ promises[e].requested # 0
                     /\ now >= promises[e].requested + promises[e].kTimeout
                     /\ promises[e].build # "pending"
              /\ promises'[e].kDeferer # promises[e].kDeferer =>
                     IF promises[e].kDeferer = "pending"
                       THEN promises'[e].destroyed = promises[e].destroyed + 1
                       ELSE promises'[e].destroying = promises[e].destroying - 1
       /\ \A k \in Keys :
              (/\ entries[k] # 0
               /\ entries'[k] # entries[k]
               /\ promises[entries[k]].build = "fulfilled")
              => promises[entries[k]].kDeferer \in {"fulfilled", "rejected"}]_vars

\* C34: a destroy(key) made while the eviction of the entry is armed or in
\* progress, or for a key the cache does not hold, leaves the timers, the
\* entries and the cache as they are (it returns the deferer of the same
\* entry and arms nothing), and destroyAction is invoked at most once for
\* an entry.
DestroyIsIdempotent ==
    [][/\ \A e \in DOMAIN promises : promises'[e].destroyed <= 1
       /\ destroys' # destroys =>
              \A k \in Keys :
                  (\/ entries[k] = 0
                   \/ promises[entries[k]].kTimer # 0
                   \/ promises[entries[k]].kDestroy)
                  => /\ timers' = timers
                     /\ promises' = promises
                     /\ entries' = entries]_vars

\* C35: when an eviction timer fires, the key maps to the very entry on
\* which the destroy() that armed it was requested: the entry was neither
\* removed nor replaced by a newer entry for the key.
TimerFiresOnItsEntry ==
    [][\A t \in timers :
          t.id \in fired' \ fired => entries[t.key] = t.promise]_vars

----------------------------------------------------------------------------
(* Crawler: the claims *)

\* The batch holds two URLs that are the same after normalization
HasDuplicate(urls) ==
    \E i, j \in DOMAIN urls : i < j /\ _parseUrl(urls[i]) = _parseUrl(urls[j])

\* fetchPageContent invocations made by call c for trace id
Fetches(c, id) ==
    Cardinality({i \in DOMAIN behaved :
        /\ behaved[i].name = "fetchPageContent"
        /\ behaved[i].call = c
        /\ behaved[i].id = id})

\* C6: a crawl() whose batch holds the same canonical URL twice invokes
\* fetchPageContent at most once for it and delivers a result for which the
\* builder was applied once per input URL
DuplicateUrlFetchedOnceBuiltTwice ==
    \A c \in DOMAIN crawls :
        HasDuplicate(crawls[c].urls) =>
            /\ crawls[c].outcome # "throws"
            /\ crawls[c].outcome = "result" => crawls[c].built = Len(crawls[c].urls)
            /\ \A u \in Urls : Fetches(c, _parseUrl(u)) <= 1

\* The errors recorded on trace t, and the stages it has entered
Errors(t) == {traces[t].errors[k] : k \in DOMAIN traces[t].errors}
Stages(t) == {traces[t].stages[k] : k \in DOMAIN traces[t].stages}

\* The invocations of behaviour name made by call c
Invoked(name, c) ==
    {i \in DOMAIN behaved : behaved[i].name = name /\ behaved[i].call = c}

\* resolveHost has answered trace t's host name with this list
Resolved(t, ips) ==
    /\ behaved[traces[t].ip].state = "fulfilled"
    /\ behaved[traces[t].ip].value = ips

\* C12: crawl() never throws; when its result is delivered the builder has
\* been applied once per input URL, each time to the one trace of the
\* position, and a trace whose behaviour failed carries an error
CrawlNeverThrows ==
    \A c \in DOMAIN crawls :
        /\ crawls[c].outcome # "throws"
        /\ crawls[c].outcome = "result" =>
               /\ crawls[c].built = Len(crawls[c].urls)
               /\ \A k \in DOMAIN crawls[c].promises :
                      LET t == crawls[c].promises[k] IN
                      /\ traces[t].stage = "done"
                      /\ behaved[traces[t].ip].state = "rejected" => traces[t].errors # << >>

\* C22: when the result builder fails on the sequence of one input URL,
\* crawl() still invokes it for the sequences of the remaining input URLs and
\* still delivers a result.
BuilderFailureSparesOtherEntries ==
    \A c \in DOMAIN crawls :
        crawls[c].failed # 0 =>
            /\ crawls[c].built = Len(crawls[c].urls)
            /\ crawls[c].outcome = "result"

\* C13: when resolveHost answers with an empty list, crawl() delivers the
\* trace, and the trace ends with the single error -7, no ip and an empty
\* list of addresses
EmptyResolveGivesOnlyMinus7 ==
    /\ \A i \in DOMAIN behaved :
           (behaved[i].name = "resolveHost" /\ behaved[i].state = "fulfilled"
              /\ behaved[i].value = << >>) =>
               crawls[behaved[i].call].outcome # "throws"
    /\ \A t \in DOMAIN traces :
           (traces[t].stage = "done" /\ Resolved(t, << >>)) =>
               /\ traces[t].errors = <<"-7">>
               /\ traces[t].ipValue = "undefined"
               /\ traces[t].ipList = << >>

\* C14: with createScheduler set up to fail with an error E, a crawl() whose
\* host has been resolved delivers a trace whose first error is E and whose
\* ip is the address the prepare stage selected
SchedulerFailureIsFirstError ==
    _behaviors["createScheduler"] = "fails" =>
        /\ \A c \in DOMAIN crawls : crawls[c].outcome # "throws"
        /\ \A t \in DOMAIN traces :
               (traces[t].stage = "done" /\ Resolved(t, <<"10.0.0.2", "10.0.0.10">>)) =>
                   /\ traces[t].errors # << >>
                   /\ traces[t].errors[1] = BehaviourError("createScheduler")
                   /\ traces[t].ipValue = "10.0.0.10"

\* C15: once -7 or -8 is recorded on a trace no later stage acts for it: the
\* init stage is not entered after -7, and fetchPageContent is never invoked
\* for a trace that carries -7 or -8
NoStageAfterWorkflowError ==
    \A t \in DOMAIN traces :
        /\ "-7" \in Errors(t) => "init" \notin Stages(t)
        /\ ("-7" \in Errors(t) \/ "-8" \in Errors(t)) =>
               \A i \in Invoked("fetchPageContent", traces[t].call) :
                   behaved[i].id # traces[t].id

\* C18: in one crawl() resolveHost is invoked at most once for a host name,
\* and every trace of the call joins the promise of the invocation made for
\* its host name in that call
ResolveHostOncePerHostname ==
    \A c \in DOMAIN crawls :
        /\ \A i, j \in Invoked("resolveHost", c) :
               hostname(behaved[i].id) = hostname(behaved[j].id) => i = j
        /\ \A t \in DOMAIN traces :
               traces[t].call = c =>
                   /\ traces[t].ip \in Invoked("resolveHost", c)
                   /\ hostname(behaved[traces[t].ip].id) = hostname(traces[t].id)

ResolveHostOncePerHostname_witness ==
    \E t1, t2 \in DOMAIN traces :
        /\ traces[t1].call = traces[t2].call
        /\ traces[t1].id # traces[t2].id
        /\ hostname(traces[t1].id) = hostname(traces[t2].id)
        /\ traces[t1].ip = traces[t2].ip
        /\ traces[t1].stage = "done"
        /\ traces[t2].stage = "done"
        /\ crawls[traces[t1].call].outcome = "result"

\* C36: on exit of the prepare stage of a trace the eviction of the session
\* of its hostname is requested if and only if the session of that trace is
\* empty, whatever other prepare stages are in flight.
PrepareExitEvictsOwnSession ==
    \A t \in DOMAIN traces :
        traces[t].ensured # "" =>
            (traces[t].evict <=> isEmpty(CallerSessions[traces[t]._session]))

\* The in-flight map holds an id exactly when a pipeline of that id has not
\* settled, and it holds that pipeline; it is empty when no crawl() is
\* pending
InFlightMap ==
    /\ \A id \in Ids :
           /\ _requests[id] # 0 <=>
                  \E t \in DOMAIN traces : traces[t].id = id /\ traces[t].stage # "done"
           /\ _requests[id] # 0 =>
                  /\ traces[_requests[id]].id = id
                  /\ traces[_requests[id]].stage # "done"
    /\ (\A c \in DOMAIN crawls : crawls[c].outcome # "pending") =>
           \A id \in Ids : _requests[id] = 0

\* C38: a trace id is in the in-flight map exactly while its pipeline is
\* executing, from the start of the execution until the sequence settles,
\* so that the map is empty once every crawl has settled; and a crawl() of
\* a URL whose id is not in flight starts a new pipeline for it.
InFlightExactlyWhileExecuting ==
    [][/\ InFlightMap'
       /\ Len(crawls') > Len(crawls) =>
              LET c == Len(crawls')
              IN  crawls'[c].outcome # "throws" =>
                      \A k \in DOMAIN crawls'[c].urls :
                          LET id == _parseUrl(crawls'[c].urls[k])
                          IN  _requests[id] = 0 =>
                                  /\ _requests'[id] > Len(traces)
                                  /\ traces'[_requests'[id]].call = c]_vars

\* C38 witness: the pipeline of an id has settled with an error and was
\* taken out of the map, and a later crawl() of the same URL has a new
\* pipeline in flight under that id.
InFlightExactlyWhileExecuting_witness ==
    \E t1, t2 \in DOMAIN traces :
        /\ t1 < t2
        /\ traces[t1].id = traces[t2].id
        /\ traces[t1].call < traces[t2].call
        /\ traces[t1].stage = "done"
        /\ traces[t1].errors # << >>
        /\ traces[t2].stage = "prepare"
        /\ _requests[traces[t2].id] = t2

\* C40: the sequences of a crawl() call are assembled by the builder of the
\* options of that call, also when another call was made before its result
\* is delivered.
OwnBuilderAssemblesResult ==
    \A c \in DOMAIN crawls :
        crawls[c].builtBy # 0 => crawls[c].builtBy = c

----------------------------------------------------------------------------
(* Claims about redirects, checked under RedirectSpec *)

\* The traces made for the target of a redirect to the host of the source
SameHostChildren ==
    {t \in DOMAIN traces :
        /\ traces[t].parent # 0
        /\ hostname(traces[t].id) = hostname(traces[traces[t].parent].id)}

Quiescent ==
    /\ \A i \in DOMAIN behaved : behaved[i].state # "pending"
    /\ \A t \in DOMAIN traces :
           /\ traces[t].stage # "complete"
           /\ ~(traces[t].stage = "redirect" /\ traces[traces[t].awaits].stage = "done")

----------------------------------------------------------------------------
(* HostSession.selectIp: the claims *)

SelectIpCalled == selection.result # "none"

\* C19: selectIp fails with an error when ips is missing or empty, and
\* returns no value then
SelectIpRejectsEmptyList ==
    (SelectIpCalled /\ (~selection.given \/ selection.ips = << >>)) =>
        selection.result = "throws"

\* C20: for a list that is not empty selectIp returns the only element of a
\* list of one; else it returns the first address of the list sorted as
\* strings, unless (totalRequestsCount - awaitingRequestsCount + 1) mod 10
\* is 0, when it returns an address at a later place of the sorted list; the
\* result is always an element of ips
SelectIpPolicy ==
    (SelectIpCalled /\ selection.given /\ selection.ips # << >>) =>
        LET ips == selection.ips
            sorted == selection.sorted
            tenth == (selection.total - selection.awaiting + 1) % 10 = 0
        IN  /\ \E i \in DOMAIN ips : selection.result = ips[i]
            /\ Len(ips) = 1 => selection.result = ips[1]
            /\ Len(ips) > 1 =>
                   /\ \A i \in DOMAIN ips : ~Before(ips[i], sorted[1])
                   /\ \A i \in 1..(Len(sorted) - 1) : ~Before(sorted[i + 1], sorted[i])
                   /\ ~tenth => selection.result = sorted[1]
                   /\ tenth => \E i \in 2..Len(sorted) : selection.result = sorted[i]

SelectIpPolicy_witness ==
    /\ SelectIpCalled
    /\ Len(selection.ips) = 3
    /\ selection.ips # selection.sorted
    /\ (selection.total - selection.awaiting + 1) % 10 = 0
    /\ selection.awaiting > 0
    /\ selection.result = selection.sorted[3]

============================================================================
